---------------------------- MODULE Spec2Model ----------------------------
(***************************************************************************)
(* A model of libzfs_core's two engines:                                   *)
(*   - _error_translation.py: the per-operation status classifiers, and    *)
(*   - nvlist.py: the dictionary <-> nvlist_t codec with its manual        *)
(*     memory management.                                                  *)
(*                                                                         *)
(* The sources are Python 2 (basestring, long, iteritems, list-returning   *)
(* map).  Statements are modelled as Python 2 executes them, one by one:   *)
(* a name that is bound nowhere raises NameError, a missing attribute      *)
(* raises AttributeError, a call with too few arguments raises TypeError.  *)
(* nvlist.py omits the colon of four compound statements (lines 117, 156,  *)
(* 220, 250) and the import of namedtuple (line 71); they are read as      *)
(* present, since without them no statement of the file executes at all.   *)
(*                                                                         *)
(* A ZFS name is a sequence of one-character strings.  A Python dict the   *)
(* code iterates is a sequence of <<key, value>> pairs in the order of     *)
(* that iteration.  A dict the codec fills is the set of its <<key, value>>*)
(* pairs: the order a Python 2 dict iterates in is left to the hash        *)
(* function and nothing in the code reads it.                              *)
(***************************************************************************)
EXTENDS Integers, Sequences, FiniteSets, TLC

VARIABLES
    call,       \* the classifier call last made: its procedure and inputs
    outcome,    \* what that call did: returned, or raised which failure
    errlist,    \* the caller's item error map after that call
    containers, \* the containers nvlist_alloc has handed out, by handle:
                \*   their pairs and how often nvlist_free was called on them
    pc,         \* where the caller of nvlist_in / nvlist_out stands
    ncall,      \* the nvlist_in / nvlist_out call in progress or last ended
    yielded,    \* the handle nvlist_in yielded, or what the slot that
                \*   nvlist_out yielded points to; 0 is NULL
    dest,       \* the dict the caller decodes into
    propagated, \* the exception the nvlist_in / nvlist_out call ended with
    addlog,     \* the nvlist_add_* calls made since that call began
    direct      \* the codec function the with-body last called itself

xvars == <<call, outcome, errlist>>

cvars == <<containers, pc, ncall, yielded, dest, propagated, addlog, direct>>

vars == <<call, outcome, errlist,
          containers, pc, ncall, yielded, dest, propagated, addlog, direct>>

(***************************************************************************)
(* Characters and names                                                    *)
(***************************************************************************)
ascii_letters ==
    {"a","b","c","d","e","f","g","h","i","j","k","l","m",
     "n","o","p","q","r","s","t","u","v","w","x","y","z",
     "A","B","C","D","E","F","G","H","I","J","K","L","M",
     "N","O","P","Q","R","S","T","U","V","W","X","Y","Z"}

digits == {"0","1","2","3","4","5","6","7","8","9"}

\* Python's None where a name is expected.
None == <<"<None>">>

MAXNAMELEN == 255

\* bool(x) of a str
Truthy(s) == s # None /\ Len(s) > 0

\* Index of the first element of s at or after i that is in seps; Len(s)+1 if none.
FindFrom(s, i, seps) ==
    LET hits == {j \in i..Len(s) : s[j] \in seps}
    IN  IF hits = {} THEN Len(s) + 1
        ELSE CHOOSE j \in hits : \A k \in hits : j <= k

\* str.split(sep): the parts between the occurrences of sep ("" gives <<"">>).
RECURSIVE SplitFrom(_, _, _)
SplitFrom(s, i, sep) ==
    LET j == FindFrom(s, i, {sep})
    IN  IF j > Len(s) THEN << SubSeq(s, i, Len(s)) >>
        ELSE << SubSeq(s, i, j - 1) >> \o SplitFrom(s, j + 1, sep)

Split(s, sep) == SplitFrom(s, 1, sep)

\* re.split(chars, name, 1)[0]: what precedes the first separator.
Before(name, seps) == SubSeq(name, 1, FindFrom(name, 1, seps) - 1)

_pool_name(name) == Before(name, {"/", "@", "#"})

_fs_name(name) == Before(name, {"@", "#"})

\* A variant that forgets that a component may not be empty.
_is_valid_name_component_lax(component) ==
    LET allowed == ascii_letters \cup digits \cup {"-", "_", ".", ":", " "}
    IN  \A i \in 1..Len(component) : component[i] \in allowed

_is_valid_name_component(component) ==
    LET allowed == ascii_letters \cup digits \cup {"-", "_", ".", ":", " "}
    IN  Len(component) > 0 /\ \A i \in 1..Len(component) : component[i] \in allowed

_is_valid_fs_name(name) ==
    LET parts == Split(name, "/")
    IN  Len(name) > 0 /\ \A i \in 1..Len(parts) : _is_valid_name_component(parts[i])

_is_valid_snap_name(name) ==
    LET parts == Split(name, "@")
    IN  Len(parts) = 2 /\ _is_valid_fs_name(parts[1])
                       /\ _is_valid_name_component(parts[2])

_is_valid_bmark_name(name) ==
    LET parts == Split(name, "#")
    IN  Len(parts) = 2 /\ _is_valid_fs_name(parts[1])
                       /\ _is_valid_name_component(parts[2])

(***************************************************************************)
(* Failure values.  The exceptions module is not among the sources; a      *)
(* failure is recorded by its class name and constructor arguments.        *)
(*   py: the Python object an entry is: an exception instance ("exc"), a   *)
(*       one-element tuple around one ("tuple"), or None ("None").         *)
(***************************************************************************)
Exc(kind, arg) ==
    [py |-> "exc", kind |-> kind, arg |-> arg, code |-> "", desc |-> "",
     errors |-> <<>>, suppressed |-> 0]

genericException(ret, name, desc) ==
    [py |-> "exc", kind |-> "ZFSGenericError", arg |-> name, code |-> ret,
     desc |-> desc, errors |-> <<>>, suppressed |-> 0]

\* IOError(ret, os.strerror(ret))
IOError(ret) ==
    [py |-> "exc", kind |-> "IOError", arg |-> None, code |-> ret,
     desc |-> "os.strerror", errors |-> <<>>, suppressed |-> 0]

\* exception(errors, suppressed_count) of a batch procedure
BatchExc(kind, errors, count) ==
    [py |-> "exc", kind |-> kind, arg |-> None, code |-> "", desc |-> "",
     errors |-> errors, suppressed |-> count]

PyNone == [Exc("None", None) EXCEPT !.py = "None"]

PyTuple(e) == [e EXCEPT !.py = "tuple"]

Raise(e) == [out |-> "raise", exc |-> e]

Return == [out |-> "return", exc |-> PyNone]

(***************************************************************************)
(* Single-call classifiers                                                 *)
(***************************************************************************)
lzc_create_xlate_error(ret, name) ==
    IF ret = "0" THEN Return
    ELSE IF ret = "EINVAL" THEN
        IF ~_is_valid_fs_name(name) THEN Raise(Exc("NameInvalid", name))
        ELSE IF Len(name) > MAXNAMELEN THEN Raise(Exc("NameTooLong", name))
        ELSE Raise(Exc("PropertyInvalid", name))
    ELSE CASE ret = "EEXIST" -> Raise(Exc("FilesystemExists", name))
           [] ret = "ENOENT" -> Raise(Exc("ParentNotFound", name))
           [] OTHER -> Raise(genericException(ret, name, "Failed to create filesystem"))

lzc_clone_xlate_error(ret, name, origin) ==
    IF ret = "0" THEN Return
    ELSE IF ret = "EINVAL" THEN
        IF ~_is_valid_fs_name(name) THEN Raise(Exc("NameInvalid", name))
        ELSE IF ~_is_valid_snap_name(origin) THEN Raise(Exc("NameInvalid", origin))
        ELSE IF Len(name) > MAXNAMELEN THEN Raise(Exc("NameTooLong", name))
        ELSE IF Len(origin) > MAXNAMELEN THEN Raise(Exc("NameTooLong", origin))
        ELSE IF _pool_name(name) # _pool_name(origin) THEN Raise(Exc("PoolsDiffer", name))
        ELSE Raise(Exc("PropertyInvalid", name))
    ELSE CASE ret = "EEXIST" -> Raise(Exc("FilesystemExists", name))
           [] ret = "ENOENT" -> Raise(Exc("DatasetNotFound", name))
           [] OTHER -> Raise(genericException(ret, name, "Failed to create clone"))

\* Line 66 reads lzc_exc.lzc_exc.genericException: the exceptions module has
\* no attribute lzc_exc, so the lookup itself raises AttributeError.
lzc_rollback_xlate_error(ret, name) ==
    IF ret = "0" THEN Return
    ELSE IF ret = "EINVAL" THEN
        IF ~_is_valid_fs_name(name) THEN Raise(Exc("NameInvalid", name))
        ELSE IF Len(name) > MAXNAMELEN THEN Raise(Exc("NameTooLong", name))
        ELSE Raise(Exc("SnapshotNotFound", name))
    ELSE IF ret = "ENOENT" THEN
        IF ~_is_valid_fs_name(name) THEN Raise(Exc("NameInvalid", name))
        ELSE Raise(Exc("FilesystemNotFound", name))
    ELSE Raise(Exc("AttributeError", <<"l","z","c","_","e","x","c">>))

lzc_get_bookmarks_xlate_error(ret, fsname) ==
    IF ret = "0" THEN Return
    ELSE CASE ret = "ENOENT" -> Raise(Exc("FilesystemNotFound", fsname))
           [] OTHER -> Raise(genericException(ret, fsname, "Failed to list bookmarks"))

lzc_snaprange_space_xlate_error(ret, firstsnap, lastsnap) ==
    IF ret = "0" THEN Return
    ELSE IF ret = "EINVAL" THEN
        IF ~_is_valid_snap_name(firstsnap) THEN Raise(Exc("NameInvalid", firstsnap))
        ELSE IF ~_is_valid_snap_name(lastsnap) THEN Raise(Exc("NameInvalid", lastsnap))
        ELSE IF Len(firstsnap) > MAXNAMELEN THEN Raise(Exc("NameTooLong", firstsnap))
        ELSE IF Len(lastsnap) > MAXNAMELEN THEN Raise(Exc("NameTooLong", lastsnap))
        ELSE IF _pool_name(firstsnap) # _pool_name(lastsnap)
             THEN Raise(Exc("PoolsDiffer", lastsnap))
        ELSE Raise(Exc("SnapshotMismatch", lastsnap))
    ELSE CASE ret = "ENOENT" -> Raise(Exc("SnapshotNotFound", lastsnap))
           [] OTHER -> Raise(genericException(ret, lastsnap,
                   "Failed to calculate space used by range of snapshots"))

lzc_get_holds_xlate_error(ret, snapname) ==
    IF ret = "0" THEN Return
    ELSE IF ret = "EINVAL" /\ ~_is_valid_snap_name(snapname)
         THEN Raise(Exc("NameInvalid", snapname))
    ELSE IF ret = "EINVAL" /\ Len(snapname) > MAXNAMELEN
         THEN Raise(Exc("NameTooLong", snapname))
    ELSE CASE ret = "ENOENT" -> Raise(Exc("SnapshotNotFound", snapname))
           [] ret = "ENOTSUP" -> Raise(Exc("FeatureNotSupported", _pool_name(snapname)))
           [] OTHER -> Raise(genericException(ret, snapname,
                   "Failed to get holds on snapshot"))

\* fromsnap may be None
lzc_send_xlate_error(ret, snapname, fromsnap) ==
    IF ret = "0" THEN Return
    ELSE IF ret = "EXDEV" /\ fromsnap # None THEN
        IF _pool_name(fromsnap) # _pool_name(snapname)
        THEN Raise(Exc("PoolsDiffer", snapname))
        ELSE Raise(Exc("SnapshotMismatch", snapname))
    ELSE IF ret = "EINVAL" THEN
        IF fromsnap # None /\ ~_is_valid_snap_name(fromsnap)
                           /\ ~_is_valid_bmark_name(fromsnap)
        THEN Raise(Exc("NameInvalid", fromsnap))
        ELSE IF ~_is_valid_snap_name(snapname) /\ ~_is_valid_fs_name(snapname)
        THEN Raise(Exc("NameInvalid", snapname))
        ELSE IF fromsnap # None /\ Len(fromsnap) > MAXNAMELEN
        THEN Raise(Exc("NameTooLong", fromsnap))
        ELSE IF Len(snapname) > MAXNAMELEN THEN Raise(Exc("NameTooLong", snapname))
        ELSE IF fromsnap # None /\ _pool_name(fromsnap) # _pool_name(snapname)
        THEN Raise(Exc("PoolsDiffer", snapname))
        ELSE Raise(IOError(ret))
    ELSE IF ret = "ENOENT" THEN
        IF fromsnap # None /\ ~_is_valid_snap_name(fromsnap)
                           /\ ~_is_valid_bmark_name(fromsnap)
        THEN Raise(Exc("NameInvalid", fromsnap))
        ELSE Raise(Exc("SnapshotNotFound", snapname))
    ELSE IF ret = "ENAMETOOLONG" THEN
        IF fromsnap # None /\ Len(fromsnap) > MAXNAMELEN
        THEN Raise(Exc("NameTooLong", fromsnap))
        ELSE Raise(Exc("NameTooLong", snapname))
    ELSE Raise(IOError(ret))

lzc_send_space_xlate_error(ret, snapname, fromsnap) ==
    LET table ==
            CASE ret = "ENOENT" -> Raise(Exc("SnapshotNotFound", snapname))
              [] OTHER -> Raise(genericException(ret, snapname,
                      "Failed to estimate backup stream size"))
    IN  IF ret = "0" THEN Return
        ELSE IF ret = "EXDEV" /\ fromsnap # None THEN
            IF _pool_name(fromsnap) # _pool_name(snapname)
            THEN Raise(Exc("PoolsDiffer", snapname))
            ELSE Raise(Exc("SnapshotMismatch", snapname))
        ELSE IF ret = "EINVAL" THEN
            IF fromsnap # None /\ ~_is_valid_snap_name(fromsnap)
            THEN Raise(Exc("NameInvalid", fromsnap))
            ELSE IF ~_is_valid_snap_name(snapname)
            THEN Raise(Exc("NameInvalid", snapname))
            ELSE IF fromsnap # None /\ Len(fromsnap) > MAXNAMELEN
            THEN Raise(Exc("NameTooLong", fromsnap))
            ELSE IF Len(snapname) > MAXNAMELEN
            THEN Raise(Exc("NameTooLong", snapname))
            ELSE IF fromsnap # None /\ _pool_name(fromsnap) # _pool_name(snapname)
            THEN Raise(Exc("PoolsDiffer", snapname))
            ELSE table
        ELSE IF ret = "ENOENT" /\ fromsnap # None /\ ~_is_valid_snap_name(fromsnap)
        THEN Raise(Exc("NameInvalid", fromsnap))
        ELSE table

\* origin may be None
lzc_receive_xlate_error(ret, snapname, origin) ==
    IF ret = "0" THEN Return
    ELSE IF ret = "EINVAL" THEN
        IF ~_is_valid_snap_name(snapname) THEN Raise(Exc("NameInvalid", snapname))
        ELSE IF Len(snapname) > MAXNAMELEN THEN Raise(Exc("NameTooLong", snapname))
        ELSE IF origin # None /\ ~_is_valid_snap_name(origin)
        THEN Raise(Exc("NameInvalid", origin))
        ELSE Raise(Exc("BadStream", None))
    ELSE IF ret = "ENOENT" THEN
        IF ~_is_valid_snap_name(snapname) THEN Raise(Exc("NameInvalid", snapname))
        ELSE Raise(Exc("DatasetNotFound", snapname))
    ELSE CASE ret = "EEXIST" -> Raise(Exc("DatasetExists", snapname))
           [] ret = "ENOTSUP" -> Raise(Exc("StreamFeatureNotSupported", None))
           [] ret = "ENODEV" -> Raise(Exc("StreamMismatch", _fs_name(snapname)))
           [] ret = "ETXTBSY" -> Raise(Exc("DestinationModified", _fs_name(snapname)))
           [] ret = "EBUSY" -> Raise(Exc("DatasetBusy", _fs_name(snapname)))
           [] ret = "ENOSPC" -> Raise(Exc("NoSpace", _fs_name(snapname)))
           [] ret = "EDQUOT" -> Raise(Exc("QuotaExceeded", _fs_name(snapname)))
           [] ret = "ENAMETOOLONG" -> Raise(Exc("NameTooLong", snapname))
           [] ret = "EROFS" -> Raise(Exc("ReadOnlyPool", _pool_name(snapname)))
           [] ret = "EAGAIN" -> Raise(Exc("SuspendedPool", _pool_name(snapname)))
           [] OTHER -> Raise(IOError(ret))

(***************************************************************************)
(* Dicts and the item error map                                            *)
(*   errlist: [items: the <<name, status>> pairs in iteration order,       *)
(*             hasMore/more: the 'N_MORE_ERRORS' key and its count]        *)
(***************************************************************************)
Keys(d) == [i \in 1..Len(d) |-> d[i][1]]

HasKey(d, k) == \E i \in 1..Len(d) : d[i][1] = k

Get(d, k) == d[CHOOSE i \in 1..Len(d) : d[i][1] = k][2]

KeyError(k) == Raise(Exc("KeyError", k))

ErrListLen(el) == Len(el.items) + (IF el.hasMore THEN 1 ELSE 0)

\* A variant that loses the count the map carries.
PopMoreValue_dropped(el) == 0

\* errlist.pop('N_MORE_ERRORS', 0): the value
PopMoreValue(el) == IF el.hasMore THEN el.more ELSE 0

\* errlist.pop('N_MORE_ERRORS', 0): the dict afterwards
PopMoreDict(el) == [el EXCEPT !.hasMore = FALSE, !.more = 0]

\* A mapper's answer: the entry it returns, or a raise of its own.
Entry(e) == [out |-> "return", exc |-> e]

WithErrList(res, el) == [out |-> res.out, exc |-> res.exc, errlist |-> el]

\* The first (least) index of a non-empty set of indices.
First(idx) == CHOOSE i \in idx : \A j \in idx : i <= j

(***************************************************************************)
(* The per-item mappers (the _map closures of the batch classifiers); the  *)
(* first parameter is the request the closure captures.                    *)
(***************************************************************************)
snapshot_map(snaps, r, name) ==
    IF r = "EXDEV" THEN
        LET pool_names == [i \in 1..Len(snaps) |-> _pool_name(snaps[i])]
            same_pool  == \A i \in 1..Len(pool_names) : pool_names[i] = pool_names[1]
        IN  IF same_pool THEN Entry(Exc("DuplicateSnapshots", name))
            ELSE Entry(Exc("PoolsDiffer", name))
    ELSE IF r = "EINVAL" THEN
        IF \E i \in 1..Len(snaps) : ~_is_valid_snap_name(snaps[i])
        THEN Entry(Exc("NameInvalid", name))
        ELSE IF \E i \in 1..Len(snaps) : Len(snaps[i]) > MAXNAMELEN
        THEN Entry(Exc("NameTooLong", name))
        ELSE Entry(Exc("PropertyInvalid", name))
    ELSE CASE r = "EEXIST" -> Entry(Exc("SnapshotExists", name))
           [] r = "ENOENT" -> Entry(Exc("FilesystemNotFound", name))
           [] OTHER -> Entry(genericException(r, name, "Failed to create snapshot"))

destroy_snaps_map(snaps, r, name) ==
    CASE r = "EEXIST" -> Entry(Exc("SnapshotIsCloned", name))
      [] r = "ENOENT" -> Entry(Exc("PoolNotFound", name))
      [] r = "EBUSY" -> Entry(Exc("SnapshotIsHeld", name))
      [] OTHER -> Entry(genericException(r, name, "Failed to destroy snapshot"))

bookmark_table(r, name) ==
    CASE r = "EEXIST" -> Entry(Exc("BookmarkExists", name))
      [] r = "ENOENT" -> Entry(Exc("SnapshotNotFound", name))
      [] r = "ENOTSUP" -> Entry(Exc("BookmarkNotSupported", name))
      [] OTHER -> Entry(genericException(r, name, "Failed to create bookmark"))

\* bookmarks: dict from bookmark name to its source snapshot's name
bookmark_map(bookmarks, r, name) ==
    IF r = "EINVAL" THEN
        IF Truthy(name) THEN
            IF ~HasKey(bookmarks, name) THEN KeyError(name)
            ELSE
                LET snap == Get(bookmarks, name)
                    pool_names == [i \in 1..Len(bookmarks) |->
                                      _pool_name(bookmarks[i][1])]
                IN  IF ~_is_valid_bmark_name(name)
                    THEN Entry(Exc("NameInvalid", name))
                    ELSE IF ~_is_valid_snap_name(snap)
                    THEN Entry(Exc("NameInvalid", snap))
                    ELSE IF _fs_name(name) # _fs_name(snap)
                    THEN Entry(Exc("BookmarkMismatch", name))
                    ELSE IF \E i \in 1..Len(pool_names) :
                                pool_names[i] # _pool_name(name)
                    THEN Entry(Exc("PoolsDiffer", name))
                    ELSE bookmark_table(r, name)
        ELSE
            LET invalid == {i \in 1..Len(bookmarks) :
                                ~_is_valid_bmark_name(bookmarks[i][1])}
            IN  IF invalid # {}
                THEN Entry(Exc("NameInvalid", bookmarks[First(invalid)][1]))
                ELSE bookmark_table(r, name)
    ELSE bookmark_table(r, name)

destroy_bookmarks_map(bookmarks, r, name) ==
    CASE r = "EINVAL" -> Entry(Exc("NameInvalid", name))
      [] OTHER -> Entry(genericException(r, name, "Failed to destroy bookmark"))

hold_table(holds, r, name) ==
    IF name # None /\ ~HasKey(holds, name) THEN KeyError(name)
    ELSE
        LET fs_name   == IF name # None THEN _fs_name(name) ELSE None
            pool_name == IF name # None THEN _pool_name(name) ELSE None
            hold_name == IF name # None THEN Get(holds, name) ELSE None
        IN  CASE r = "ENOENT" -> Entry(Exc("FilesystemNotFound", fs_name))
              [] r = "EEXIST" -> Entry(Exc("HoldExists", name))
              [] r = "E2BIG" -> Entry(Exc("NameTooLong", hold_name))
              [] r = "ENOTSUP" -> Entry(Exc("FeatureNotSupported", pool_name))
              [] OTHER -> Entry(genericException(r, name, "Failed to hold snapshot"))

\* holds: dict from snapshot name to hold tag
hold_map(holds, r, name) ==
    IF r = "EXDEV" THEN Entry(Exc("PoolsDiffer", name))
    ELSE IF r = "EINVAL" THEN
        IF Truthy(name) THEN
            IF ~HasKey(holds, name) THEN KeyError(name)
            ELSE
                LET pool_names == [i \in 1..Len(holds) |-> _pool_name(holds[i][1])]
                IN  IF ~_is_valid_snap_name(name)
                    THEN Entry(Exc("NameInvalid", name))
                    ELSE IF Len(name) > MAXNAMELEN
                    THEN Entry(Exc("NameTooLong", name))
                    ELSE IF \E i \in 1..Len(pool_names) :
                                pool_names[i] # _pool_name(name)
                    THEN Entry(Exc("PoolsDiffer", name))
                    ELSE hold_table(holds, r, name)
        ELSE
            LET invalid == {i \in 1..Len(holds) : ~_is_valid_snap_name(holds[i][1])}
            IN  IF invalid # {}
                THEN Entry(Exc("NameInvalid", holds[First(invalid)][1]))
                ELSE hold_table(holds, r, name)
    ELSE hold_table(holds, r, name)

\* holds: dict from snapshot name to [list: whether the value is a list,
\*                                    tags: the hold tags it lists]
release_map(holds, r, name) ==
    IF r = "EXDEV" THEN Entry(Exc("PoolsDiffer", name))
    ELSE IF r = "EINVAL" THEN
        IF Truthy(name) THEN
            LET pool_names == [i \in 1..Len(holds) |-> _pool_name(holds[i][1])]
            IN  IF ~_is_valid_snap_name(name)
                THEN Entry(Exc("NameInvalid", name))
                ELSE IF Len(name) > MAXNAMELEN
                THEN Entry(Exc("NameTooLong", name))
                ELSE IF \E i \in 1..Len(pool_names) :
                            pool_names[i] # _pool_name(name)
                THEN Entry(Exc("PoolsDiffer", name))
                ELSE Entry(PyNone)
        ELSE
            LET invalid == {i \in 1..Len(holds) : ~_is_valid_snap_name(holds[i][1])}
            IN  IF invalid # {}
                THEN Entry(Exc("NameInvalid", holds[First(invalid)][1]))
                ELSE Entry(PyNone)
    ELSE IF r = "ENOENT" THEN Entry(Exc("HoldNotFound", name))
    ELSE IF r = "E2BIG" THEN
        IF ~HasKey(holds, name) THEN KeyError(name)
        ELSE
            LET tag_list == Get(holds, name).tags
                too_long == {i \in 1..Len(tag_list) : Len(tag_list[i]) > MAXNAMELEN}
            IN  IF too_long = {} THEN Raise(Exc("IndexError", None))
                ELSE Entry(Exc("NameTooLong", tag_list[First(too_long)]))
    ELSE IF r = "ENOTSUP" THEN
        LET pool_name == IF name # None THEN _pool_name(name) ELSE None
        IN  Entry(PyTuple(Exc("FeatureNotSupported", pool_name)))
    ELSE Entry(genericException(r, name, "Failed to release snapshot hold"))

\* mapper(err, name), for the mapper the batch classifier op passes.
mapper(op, req, r, name) ==
    CASE op = "snapshot" -> snapshot_map(req, r, name)
      [] op = "destroy_snaps" -> destroy_snaps_map(req, r, name)
      [] op = "bookmark" -> bookmark_map(req, r, name)
      [] op = "destroy_bookmarks" -> destroy_bookmarks_map(req, r, name)
      [] op = "hold" -> hold_map(req, r, name)
      [] op = "release" -> release_map(req, r, name)

\* The answers of mapper(err, name) over the pairs, in order.
MapItems(items, op, req) ==
    [i \in 1..Len(items) |-> mapper(op, req, items[i][2], items[i][1])]

\* _handleErrList with an empty item error map: r is what the mapper gave
\* for the aggregate status.
HandleNoItems(r, exception, el) ==
    IF r.out = "raise" THEN WithErrList(r, el)
    ELSE WithErrList(Raise(BatchExc(exception, << r.exc >>, 0)), el)

\* _handleErrList with items: rs is what the mapper gave for each of them,
\* el the error map after the pop.
HandleItems(rs, exception, suppressed_count, el) ==
    LET raised == {i \in 1..Len(rs) : rs[i].out = "raise"}
    IN  IF raised # {}
        THEN WithErrList(rs[First(raised)], el)
        ELSE WithErrList(
                Raise(BatchExc(exception, [i \in 1..Len(rs) |-> rs[i].exc],
                               suppressed_count)),
                el)

_handleErrList(ret, el, names, exception, op, req) ==
    IF ret = "0" THEN WithErrList(Return, el)
    ELSE IF ErrListLen(el) = 0 THEN
        HandleNoItems(mapper(op, req, ret, IF Len(names) = 1 THEN names[1] ELSE None),
                      exception, el)
    ELSE HandleItems(MapItems(el.items, op, req), exception,
                     PopMoreValue(el), PopMoreDict(el))

(***************************************************************************)
(* Batch classifiers                                                       *)
(***************************************************************************)
lzc_snapshot_xlate_errors(ret, el, snaps) ==
    IF ret = "0" THEN WithErrList(Return, el)
    ELSE _handleErrList(ret, el, snaps, "SnapshotFailure", "snapshot", snaps)

lzc_destroy_snaps_xlate_errors(ret, el, snaps) ==
    IF ret = "0" THEN WithErrList(Return, el)
    ELSE _handleErrList(ret, el, snaps, "SnapshotDestructionFailure",
                        "destroy_snaps", snaps)

lzc_bookmark_xlate_errors(ret, el, bookmarks) ==
    IF ret = "0" THEN WithErrList(Return, el)
    ELSE _handleErrList(ret, el, Keys(bookmarks), "BookmarkFailure",
                        "bookmark", bookmarks)

lzc_destroy_bookmarks_xlate_errors(ret, el, bookmarks) ==
    IF ret = "0" THEN WithErrList(Return, el)
    ELSE _handleErrList(ret, el, bookmarks, "BookmarkDestructionFailure",
                        "destroy_bookmarks", bookmarks)

lzc_hold_xlate_errors(ret, el, holds) ==
    IF ret = "0" THEN WithErrList(Return, el)
    ELSE IF ret = "EBADF"
    THEN WithErrList(Raise(Exc("BadHoldCleanupFD", None)), el)
    ELSE _handleErrList(ret, el, Keys(holds), "HoldFailure", "hold", holds)

lzc_release_xlate_errors(ret, el, holds) ==
    IF ret = "0" THEN WithErrList(Return, el)
    ELSE IF \E i \in 1..Len(holds) : ~holds[i][2].list
    THEN WithErrList(Raise(Exc("lzc_exc.TypeError", None)), el)
    ELSE _handleErrList(ret, el, Keys(holds), "HoldReleaseFailure", "release", holds)

(***************************************************************************)
(* nvlist.py: Python values and nvpairs                                    *)
(*   A Python value is [t: its type's name, s: a str's text, n: an int's,  *)
(*   a bool's (0/1) or a CData integer's number, ct: a CData's C type,     *)
(*   sub: a dict's <<key, value>> pairs or a list's elements].             *)
(*   An nvpair is [name, type: its DATA_TYPE_*, s, n, sub: the pairs of a  *)
(*   nested nvlist or the elements of an array].                           *)
(***************************************************************************)
PyVal(t, s, n, ct, sub) ==
    [t |-> t, s |-> s, n |-> n, ct |-> ct, sub |-> sub, map |-> {}]

NoneVal == PyVal("NoneType", "", 0, "", <<>>)

BoolVal(b) == PyVal("bool", "", IF b THEN 1 ELSE 0, "", <<>>)

StrVal(s) == PyVal("str", s, 0, "", <<>>)

IntVal(n) == PyVal("int", "", n, "", <<>>)

FloatVal == PyVal("float", "", 0, "", <<>>)

\* _ffi.cast(ct, n)
CData(ct, n) == PyVal("CData", "", n, ct, <<>>)

DictVal(items) == PyVal("dict", "", 0, "", items)

\* A dict the codec fills, or clears: the set of its <<key, value>> pairs.
BuiltDict(items) == [PyVal("dict", "", 0, "", <<>>) EXCEPT !.map = items]

ListVal(elems) == PyVal("list", "", 0, "", elems)

NvPair(name, type, s, n, sub) ==
    [name |-> name, type |-> type, s |-> s, n |-> n, sub |-> sub]

SizedSuffixes ==
    {"byte", "int8", "uint8", "int16", "uint16", "int32", "uint32", "int64", "uint64"}

CTypes ==
    {"uint8_t", "int8_t", "uint16_t", "int16_t", "uint32_t", "int32_t",
     "uint64_t", "int64_t", "boolean_t", "uchar_t"}

_type_to_suffix(ct) ==
    CASE ct = "uint8_t" -> "uint8"
      [] ct = "int8_t" -> "int8"
      [] ct = "uint16_t" -> "uint16"
      [] ct = "int16_t" -> "int16"
      [] ct = "uint32_t" -> "uint32"
      [] ct = "int32_t" -> "int32"
      [] ct = "uint64_t" -> "uint64"
      [] ct = "int64_t" -> "int64"
      [] ct = "boolean_t" -> "boolean"
      [] ct = "uchar_t" -> "byte"

\* The DATA_TYPE_* of the pair that nvlist_add_<suffix> adds.
DataType(suffix) ==
    CASE suffix = "boolean" -> "DATA_TYPE_BOOLEAN"
      [] suffix = "boolean_value" -> "DATA_TYPE_BOOLEAN_VALUE"
      [] suffix = "byte" -> "DATA_TYPE_BYTE"
      [] suffix = "int8" -> "DATA_TYPE_INT8"
      [] suffix = "uint8" -> "DATA_TYPE_UINT8"
      [] suffix = "int16" -> "DATA_TYPE_INT16"
      [] suffix = "uint16" -> "DATA_TYPE_UINT16"
      [] suffix = "int32" -> "DATA_TYPE_INT32"
      [] suffix = "uint32" -> "DATA_TYPE_UINT32"
      [] suffix = "int64" -> "DATA_TYPE_INT64"
      [] suffix = "uint64" -> "DATA_TYPE_UINT64"
      [] suffix = "string" -> "DATA_TYPE_STRING"
      [] suffix = "nvlist" -> "DATA_TYPE_NVLIST"
      [] suffix = "boolean_array" -> "DATA_TYPE_BOOLEAN_ARRAY"
      [] suffix = "byte_array" -> "DATA_TYPE_BYTE_ARRAY"
      [] suffix = "int8_array" -> "DATA_TYPE_INT8_ARRAY"
      [] suffix = "uint8_array" -> "DATA_TYPE_UINT8_ARRAY"
      [] suffix = "int16_array" -> "DATA_TYPE_INT16_ARRAY"
      [] suffix = "uint16_array" -> "DATA_TYPE_UINT16_ARRAY"
      [] suffix = "int32_array" -> "DATA_TYPE_INT32_ARRAY"
      [] suffix = "uint32_array" -> "DATA_TYPE_UINT32_ARRAY"
      [] suffix = "int64_array" -> "DATA_TYPE_INT64_ARRAY"
      [] suffix = "uint64_array" -> "DATA_TYPE_UINT64_ARRAY"
      [] suffix = "string_array" -> "DATA_TYPE_STRING_ARRAY"
      [] suffix = "nvlist_array" -> "DATA_TYPE_NVLIST_ARRAY"

TypeInfo(suffix, convert, array) ==
    [suffix |-> suffix, convert |-> convert, array |-> array]

\* The suffixes of the array rows of the table of _type_info.
ArraySuffixes ==
    {"boolean_array", "byte_array", "int8_array", "uint8_array", "int16_array",
     "uint16_array", "int32_array", "uint32_array", "int64_array", "uint64_array",
     "string_array", "nvlist_array"}

\* The DATA_TYPE_* the table of _type_info has a row for.
KnownTypes ==
    {DataType(x) : x \in SizedSuffixes \cup ArraySuffixes
                            \cup {"boolean", "boolean_value", "string", "nvlist"}}

\* suffix: the accessor's suffix, "None" where the row has None;
\* convert: the row's lambda; array: nvpair_type_is_array of such a pair.
_type_info(typeid) ==
    CASE typeid = "DATA_TYPE_BOOLEAN" -> TypeInfo("None", "None", FALSE)
      [] typeid = "DATA_TYPE_BOOLEAN_VALUE" -> TypeInfo("boolean_value", "bool", FALSE)
      [] typeid = "DATA_TYPE_BYTE" -> TypeInfo("byte", "int", FALSE)
      [] typeid = "DATA_TYPE_INT8" -> TypeInfo("int8", "int", FALSE)
      [] typeid = "DATA_TYPE_UINT8" -> TypeInfo("uint8", "int", FALSE)
      [] typeid = "DATA_TYPE_INT16" -> TypeInfo("int16", "int", FALSE)
      [] typeid = "DATA_TYPE_UINT16" -> TypeInfo("uint16", "int", FALSE)
      [] typeid = "DATA_TYPE_INT32" -> TypeInfo("int32", "int", FALSE)
      [] typeid = "DATA_TYPE_UINT32" -> TypeInfo("uint32", "int", FALSE)
      [] typeid = "DATA_TYPE_INT64" -> TypeInfo("int64", "int", FALSE)
      [] typeid = "DATA_TYPE_UINT64" -> TypeInfo("uint64", "int", FALSE)
      [] typeid = "DATA_TYPE_STRING" -> TypeInfo("string", "string", FALSE)
      [] typeid = "DATA_TYPE_NVLIST" -> TypeInfo("nvlist", "nvlist", FALSE)
      [] typeid = "DATA_TYPE_BOOLEAN_ARRAY" -> TypeInfo("boolean_array", "bool", TRUE)
      [] typeid = "DATA_TYPE_BYTE_ARRAY" -> TypeInfo("byte_array", "int", TRUE)
      [] typeid = "DATA_TYPE_INT8_ARRAY" -> TypeInfo("int8_array", "int", TRUE)
      [] typeid = "DATA_TYPE_UINT8_ARRAY" -> TypeInfo("uint8_array", "int", TRUE)
      [] typeid = "DATA_TYPE_INT16_ARRAY" -> TypeInfo("int16_array", "int", TRUE)
      [] typeid = "DATA_TYPE_UINT16_ARRAY" -> TypeInfo("uint16_array", "int", TRUE)
      [] typeid = "DATA_TYPE_INT32_ARRAY" -> TypeInfo("int32_array", "int", TRUE)
      [] typeid = "DATA_TYPE_UINT32_ARRAY" -> TypeInfo("uint32_array", "int", TRUE)
      [] typeid = "DATA_TYPE_INT64_ARRAY" -> TypeInfo("int64_array", "int", TRUE)
      [] typeid = "DATA_TYPE_UINT64_ARRAY" -> TypeInfo("uint64_array", "int", TRUE)
      [] typeid = "DATA_TYPE_STRING_ARRAY" -> TypeInfo("string_array", "string", TRUE)
      [] typeid = "DATA_TYPE_NVLIST_ARRAY" -> TypeInfo("nvlist_array", "nvlist", TRUE)

(***************************************************************************)
(* The library's containers.  A run of codec code carries a record m:      *)
(*   heap: the containers, by handle; log: the nvlist_add_* calls made;    *)
(*   nalloc, nadd: how many nvlist_alloc / nvlist_add_* calls it has made; *)
(*   res, ret: the status the last nvlist_alloc / nvlist_add_* returned;   *)
(*   h: the handle the last nvlist_alloc stored; c_array: the handles of   *)
(*   the array being built; exc: the exception propagating, "" if none.    *)
(* A fault names the call the library fails: the alloc-th nvlist_alloc or  *)
(* the add-th nvlist_add_* of the run, or the val-th nvpair_value_*.       *)
(***************************************************************************)
Run(heap, log) ==
    [heap |-> heap, log |-> log, nalloc |-> 0, nadd |-> 0, res |-> 0, ret |-> 0,
     h |-> 0, c_array |-> <<>>, exc |-> ""]

Fault(alloc, add, val) == [alloc |-> alloc, add |-> add, val |-> val]

NoFault == Fault(0, 0, 0)

Raised(m, kind) == [m EXCEPT !.exc = kind]

\* The TypeErrors of the encoder, told apart by their message.
\* line 205: _nvlist_add_array is called with two of its three arguments
ArityError == "TypeError: _nvlist_add_array() takes exactly 3 arguments (2 given)"

\* line 118
ElementsDiffer == "TypeError: Array has elements of different types"

\* line 199
UnsupportedKey == "TypeError: Unsupported key type"

\* lines 157 and 221
UnsupportedValue == "TypeError: Unsupported value type"

\* _lib.nvlist_alloc(p, NV_UNIQUE_NAME, 0)
nvlist_alloc(m, fault) ==
    IF m.nalloc + 1 = fault.alloc
    THEN [m EXCEPT !.nalloc = @ + 1, !.res = 1, !.h = 0]
    ELSE [m EXCEPT !.nalloc = @ + 1, !.res = 0, !.h = Len(m.heap) + 1,
                   !.heap = Append(@, [pairs |-> <<>>, frees |-> 0])]

\* _lib.nvlist_free(nvlist)
nvlist_free(m, nvlist) == [m EXCEPT !.heap[nvlist].frees = @ + 1]

\* A container of unique names: a pair replaces the pair of its name.
PutPair(pairs, pair) ==
    Append(SelectSeq(pairs, LAMBDA p : p.name # pair.name), pair)

\* _lib.nvlist_add_<suffix>(nvlist, name, ...): the pair it adds is copied in.
nvlist_add(m, fault, nvlist, suffix, pair) ==
    IF m.nadd + 1 = fault.add
    THEN [m EXCEPT !.nadd = @ + 1, !.ret = 1,
                   !.log = Append(@, [fn |-> suffix, nvlist |-> nvlist,
                                      name |-> pair.name])]
    ELSE [m EXCEPT !.nadd = @ + 1, !.ret = 0,
                   !.log = Append(@, [fn |-> suffix, nvlist |-> nvlist,
                                      name |-> pair.name]),
                   !.heap[nvlist].pairs = PutPair(@, pair)]

\* if ret != 0: raise MemoryError('nvlist_add failed')
CheckRet(m) == IF m.exc = "" /\ m.ret # 0 THEN Raised(m, "MemoryError") ELSE m

\* The elements an array pair holds for a list of bools.
BoolElems(array) ==
    [i \in 1..Len(array) |-> NvPair("", "DATA_TYPE_BOOLEAN_VALUE", "", array[i].n, <<>>)]

\* The elements nvlist_add_nvlist_array copies from the containers c_array.
NvlistElems(m) ==
    [i \in 1..Len(m.c_array) |->
        NvPair("", "DATA_TYPE_NVLIST", "", 0, m.heap[m.c_array[i]].pairs)]

\* for i in range(0, length): free c_array[i], the NULL ones skipped
RECURSIVE FreeArray(_, _)
FreeArray(m, i) ==
    IF i > Len(m.c_array) THEN m
    ELSE IF m.c_array[i] = 0 THEN FreeArray(m, i + 1)
    ELSE FreeArray(nvlist_free(m, m.c_array[i]), i + 1)

(***************************************************************************)
(* Encoding: nvlist_in up to its yield, _dict_to_nvlist, _nvlist_add_array *)
(***************************************************************************)
RECURSIVE DictLoop(_, _, _, _, _)
RECURSIVE nvlist_in_enter(_, _, _)

\* with nvlist_in(v) as sub_nvlist: ret = nvlist_add_nvlist(nvlist, k, sub_nvlist)
\* m is the run after the nested nvlist_in has yielded m.h, or has raised.
AddNested(m, fault, nvlist, k) ==
    IF m.exc # "" THEN m
    ELSE nvlist_free(
            nvlist_add(m, fault, nvlist, "nvlist",
                       NvPair(k, "DATA_TYPE_NVLIST", "", 0, m.heap[m.h].pairs)),
            m.h)

\* The branch of _dict_to_nvlist for the value v under the str key k.
DictValue(k, v, nvlist, m, fault) ==
    CASE v.t = "dict" -> AddNested(nvlist_in_enter(v, m, fault), fault, nvlist, k)
      [] v.t = "list" -> Raised(m, ArityError)
      [] v.t = "str" ->
            nvlist_add(m, fault, nvlist, "string",
                       NvPair(k, "DATA_TYPE_STRING", v.s, 0, <<>>))
      [] v.t = "bool" ->
            nvlist_add(m, fault, nvlist, "boolean_value",
                       NvPair(k, "DATA_TYPE_BOOLEAN_VALUE", "", v.n, <<>>))
      [] v.t = "NoneType" ->
            nvlist_add(m, fault, nvlist, "boolean",
                       NvPair(k, "DATA_TYPE_BOOLEAN", "", 0, <<>>))
      [] v.t = "int" -> Raised(m, "NameError")
      [] v.t = "CData" /\ v.ct \in CTypes ->
            nvlist_add(m, fault, nvlist, _type_to_suffix(v.ct),
                       NvPair(k, DataType(_type_to_suffix(v.ct)), "", v.n, <<>>))
      [] OTHER -> Raised(m, UnsupportedValue)

\* One turn of the loop of _dict_to_nvlist.
DictItem(k, v, nvlist, m, fault) ==
    IF k.t # "str" THEN Raised(m, UnsupportedKey)
    ELSE CheckRet(DictValue(k.s, v, nvlist, [m EXCEPT !.ret = 0], fault))

DictLoop(items, i, nvlist, m, fault) ==
    IF m.exc # "" \/ i > Len(items) THEN m
    ELSE DictLoop(items, i + 1, nvlist,
                  DictItem(items[i][1], items[i][2], nvlist, m, fault), fault)

_dict_to_nvlist(props, nvlist, m, fault) == DictLoop(props.sub, 1, nvlist, m, fault)

\* nvlist_in after its nvlist_alloc: m.h is the new container.
Populate(props, m, fault) ==
    IF m.res # 0 THEN Raised(m, "MemoryError")
    ELSE [_dict_to_nvlist(props, m.h, m, fault) EXCEPT !.h = m.h]

\* nvlist_in(props) up to its yield: the run ends with the container to
\* yield in h, or with an exception.
nvlist_in_enter(props, m, fault) == Populate(props, nvlist_alloc(m, fault), fault)

RECURSIVE ArrayLoop(_, _, _, _)

\* The loop of the dict branch after its i-th nvlist_alloc.
ArrayElement(array, i, m, fault) ==
    IF m.res # 0 THEN m
    ELSE ArrayLoop(array, i + 1,
                   _dict_to_nvlist(array[i], m.h, [m EXCEPT !.c_array[i] = m.h], fault),
                   fault)

ArrayLoop(array, i, m, fault) ==
    IF m.exc # "" \/ i > Len(array) THEN m
    ELSE ArrayElement(array, i, nvlist_alloc(m, fault), fault)

\* The dict branch after its loop.
ArrayOfDicts(nvlist, key, m, fault) ==
    IF m.exc # "" THEN m
    ELSE IF m.res # 0 THEN Raised(FreeArray(m, 1), "MemoryError")
    ELSE FreeArray(nvlist_add(m, fault, nvlist, "nvlist_array",
                              NvPair(key, "DATA_TYPE_NVLIST_ARRAY", "", 0,
                                     NvlistElems(m))),
                   1)

\* The branch of _nvlist_add_array for the specimen's type.
ArrayBranch(nvlist, key, array, m, fault) ==
    CASE array[1].t = "dict" ->
            ArrayOfDicts(nvlist, key,
                         ArrayLoop(array, 1,
                                   [m EXCEPT !.res = 0,
                                             !.c_array = [i \in 1..Len(array) |-> 0]],
                                   fault),
                         fault)
      [] array[1].t = "str" -> Raised(m, "NameError")
      [] array[1].t = "bool" ->
            nvlist_add(m, fault, nvlist, "boolean_array",
                       NvPair(key, "DATA_TYPE_BOOLEAN_ARRAY", "", 0, BoolElems(array)))
      [] array[1].t = "int" -> Raised(m, "NameError")
      [] array[1].t = "CData" /\ array[1].ct \in CTypes -> Raised(m, "NameError")
      [] OTHER -> Raised(m, UnsupportedValue)

_nvlist_add_array(nvlist, key, array, m, fault) ==
    IF Len(array) = 0 THEN Raised(m, "IndexError")
    ELSE IF \E i \in 2..Len(array) : array[i].t # array[1].t
    THEN Raised(m, ElementsDiffer)
    ELSE CheckRet(ArrayBranch(nvlist, key, array, [m EXCEPT !.ret = 0], fault))

(***************************************************************************)
(* Decoding: _nvlist_to_dict.  A run of it carries a record st:            *)
(*   d: the items of the dict being filled; val: the value last converted; *)
(*   vals: the list being built; nval: how many nvpair_value_* calls it    *)
(*   has made; exc: the exception propagating, "" if none.                 *)
(***************************************************************************)
Decoding(d) == [d |-> d, val |-> NoneVal, vals |-> <<>>, nval |-> 0, exc |-> ""]

\* props[name] = val
DictSet(d, k, v) == {p \in d : p[1] # k} \cup {<<k, v>>}

RECURSIVE DecodeLoop(_, _, _, _)

\* lambda x: _nvlist_to_dict(x, {}), st being the run after that call and
\* d, vals what the caller was building.
NestedDict(st, d, vals) ==
    [st EXCEPT !.val = IF st.exc = "" THEN BuiltDict(st.d) ELSE @,
               !.d = d, !.vals = vals]

\* typeinfo.convert(x)
Convert(convert, x, st, fault) ==
    CASE convert = "bool" -> [st EXCEPT !.val = BoolVal(x.n # 0)]
      [] convert = "int" -> [st EXCEPT !.val = IntVal(x.n)]
      [] convert = "string" -> [st EXCEPT !.val = StrVal(x.s)]
      [] convert = "nvlist" ->
            NestedDict(DecodeLoop(x.sub, 1, [st EXCEPT !.d = {}, !.vals = <<>>], fault),
                       st.d, st.vals)

\* val.append(...)
AppendVal(st) == IF st.exc # "" THEN st ELSE [st EXCEPT !.vals = Append(@, st.val)]

\* for i in range(length): val.append(typeinfo.convert(valptr[0][i]))
RECURSIVE ConvertArray(_, _, _, _, _)
ConvertArray(convert, elems, i, st, fault) ==
    IF st.exc # "" \/ i > Len(elems) THEN st
    ELSE ConvertArray(convert, elems, i + 1,
                      AppendVal(Convert(convert, elems[i], st, fault)), fault)

\* val = [...] of an array pair
ListOf(st) == IF st.exc # "" THEN st ELSE [st EXCEPT !.val = ListVal(st.vals)]

\* ret = cfunc(pair, valptr, ...) and the conversion of what it stored
PairValue(pair, typeinfo, st, fault) ==
    IF st.nval + 1 = fault.val
    THEN [st EXCEPT !.nval = @ + 1, !.exc = "RuntimeError"]
    ELSE IF typeinfo.array
    THEN ListOf(ConvertArray(typeinfo.convert, pair.sub, 1,
                             [st EXCEPT !.nval = @ + 1, !.vals = <<>>], fault))
    ELSE Convert(typeinfo.convert, pair, [st EXCEPT !.nval = @ + 1], fault)

\* props[name] = val
StoreVal(name, st) ==
    IF st.exc # "" THEN st ELSE [st EXCEPT !.d = DictSet(@, StrVal(name), st.val)]

\* One turn of the loop of _nvlist_to_dict.
DecodePair(pair, st, fault) ==
    IF pair.type \notin KnownTypes THEN [st EXCEPT !.exc = "KeyError"]
    ELSE IF _type_info(pair.type).suffix = "None"
    THEN [st EXCEPT !.exc = "AttributeError"]
    ELSE StoreVal(pair.name, PairValue(pair, _type_info(pair.type), st, fault))

DecodeLoop(pairs, i, st, fault) ==
    IF st.exc # "" \/ i > Len(pairs) THEN st
    ELSE DecodeLoop(pairs, i + 1, DecodePair(pairs[i], st, fault), fault)

\* _nvlist_to_dict(nvlist, props), nvlist given by its pairs: the run ends
\* with props in d, or with an exception and what props held by then.
_nvlist_to_dict(pairs, props, fault) == DecodeLoop(pairs, 1, Decoding(props), fault)

(***************************************************************************)
(* The codec's callers: sample dicts, arrays, containers and faults        *)
(***************************************************************************)
\* The most entries a sample dict has at its top level.
MaxKeys == 2

\* The longest sample list of dicts.
MaxArr == 4

\* The latest library call of a run of nvlist_in a fault is put on.
MaxFail == 2

KeySamples == {StrVal("a"), StrVal("b"), IntVal(1)}

MixedList == ListVal(<<StrVal("s"), IntVal(1)>>)

ValueSamples ==
    { NoneVal, BoolVal(TRUE), StrVal("x"), IntVal(5), CData("uint8_t", 5), FloatVal,
      MixedList, ListVal(<<StrVal("s"), StrVal("t")>>),
      DictVal(<<>>), DictVal(<< <<StrVal("a"), StrVal("x")>> >>),
      DictVal(<< <<IntVal(1), StrVal("x")>> >>),
      DictVal(<< <<StrVal("a"), DictVal(<< <<StrVal("b"), BoolVal(FALSE)>> >>)>> >>) }

\* Every dict of up to MaxKeys entries, keys all different, in every order.
PropMaps ==
    UNION {{DictVal([i \in 1..k |-> <<ks[i], vs[i]>>]) :
                ks \in {f \in [1..k -> KeySamples] :
                            \A i, j \in 1..k : i # j => f[i] # f[j]},
                vs \in [1..k -> ValueSamples]} :
           k \in 0..MaxKeys}

Faults ==
    {NoFault} \cup {Fault(k, 0, 0) : k \in 1..MaxFail}
              \cup {Fault(0, j, 0) : j \in 1..MaxFail}

DictSamples ==
    { DictVal(<< <<StrVal("a"), StrVal("x")>> >>),
      DictVal(<< <<IntVal(1), StrVal("x")>> >>),
      DictVal(<<>>) }

Arrays ==
    UNION {[1..n -> DictSamples] : n \in 1..MaxArr}
    \cup { <<>>, MixedList.sub, <<BoolVal(TRUE), StrVal("s")>>,
           <<StrVal("s"), StrVal("t")>>, <<BoolVal(TRUE), BoolVal(FALSE)>>,
           <<IntVal(1), IntVal(2)>>, <<CData("uint8_t", 1), CData("int32_t", 2)>>,
           <<CData("uint8_t", 1), CData("uint8_t", 2)>>, <<NoneVal, NoneVal>> }

ArrayFaults ==
    {NoFault} \cup {Fault(k, 0, 0) : k \in 1..MaxArr}
              \cup {Fault(0, j, 0) : j \in 1..(MaxArr + 1)}

\* The dicts whose container the with-body adds an array to.
ArrayBases == {DictVal(<<>>), DictVal(<< <<StrVal("a"), StrVal("x")>> >>)}

ValFaults == {NoFault} \cup {Fault(0, 0, v) : v \in 1..MaxFail}

\* What the dict handed to nvlist_out holds beforehand.
DestMaps == {BuiltDict({}), BuiltDict({<<StrVal("old"), StrVal("x")>>})}

\* Containers the library hands back through the slot of nvlist_out.
WireSamples ==
    { <<>>,
      << NvPair("a", "DATA_TYPE_STRING", "x", 0, <<>>) >>,
      << NvPair("a", "DATA_TYPE_BOOLEAN", "", 0, <<>>) >>,
      << NvPair("a", "DATA_TYPE_HRTIME", "", 7, <<>>) >>,
      << NvPair("N_MORE_ERRORS", "DATA_TYPE_INT32", "", 4, <<>>),
         NvPair("b", "DATA_TYPE_UINT64", "", 5, <<>>) >>,
      << NvPair("a", "DATA_TYPE_STRING_ARRAY", "", 0,
                << NvPair("", "DATA_TYPE_STRING", "s", 0, <<>>),
                   NvPair("", "DATA_TYPE_STRING", "t", 0, <<>>) >>) >>,
      << NvPair("a", "DATA_TYPE_UINT64_ARRAY", "", 0,
                << NvPair("", "DATA_TYPE_UINT64", "", 1, <<>>) >>),
         NvPair("b", "DATA_TYPE_BOOLEAN_VALUE", "", 1, <<>>) >>,
      << NvPair("a", "DATA_TYPE_INT8_ARRAY", "", 0,
                << NvPair("", "DATA_TYPE_INT8", "", 1, <<>>),
                   NvPair("", "DATA_TYPE_INT8", "", 2, <<>>) >>) >>,
      << NvPair("b", "DATA_TYPE_BYTE_ARRAY", "", 0,
                << NvPair("", "DATA_TYPE_BYTE", "", 3, <<>>) >>),
         NvPair("a", "DATA_TYPE_NVLIST", "", 0,
                << NvPair("b", "DATA_TYPE_INT16_ARRAY", "", 0,
                          << NvPair("", "DATA_TYPE_INT16", "", 1, <<>>) >>) >>) >>,
      << NvPair("a", "DATA_TYPE_NVLIST", "", 0,
                << NvPair("b", "DATA_TYPE_STRING", "x", 0, <<>>) >>) >>,
      << NvPair("a", "DATA_TYPE_NVLIST_ARRAY", "", 0,
                << NvPair("", "DATA_TYPE_NVLIST", "", 0,
                          << NvPair("b", "DATA_TYPE_STRING", "x", 0, <<>>) >>),
                   NvPair("", "DATA_TYPE_NVLIST", "", 0,
                          << NvPair("b", "DATA_TYPE_BOOLEAN", "", 0, <<>>) >>) >>) >> }

\* The handles that were handed out and never freed.
Outstanding(heap) == {h \in 1..Len(heap) : heap[h].frees = 0}

CodecCall(fn, p, fault, allocated, exit) ==
    [fn |-> fn, props |-> p, fault |-> fault, allocated |-> allocated, exit |-> exit]

Direct(fn, key, array, fault, before, adds, exc) ==
    [fn |-> fn, key |-> key, array |-> array, fault |-> fault, before |-> before,
     adds |-> adds, exc |-> exc]


(***************************************************************************)
(* Inputs                                                                  *)
(***************************************************************************)
\* How far past MAXNAMELEN the long sample names reach.
Excess == 45

Pad(n) == [i \in 1..n |-> "a"]

pool  == <<"p","o","o","l">>
pool1 == <<"p","o","o","l","1">>
pool2 == <<"p","o","o","l","2">>

n_fs       == pool \o <<"/","f","s">>
n_fs_bad   == pool \o <<"/","/","f","s">>
n_empty    == <<>>
n_fs1      == pool1 \o <<"/","f","s">>
n_snap1    == pool1 \o <<"/","f","s","@","s","1">>
n_snap1b   == pool1 \o <<"/","f","s","@","s","2">>
n_snap2    == pool2 \o <<"/","f","s","@","s","2">>
n_snap_a   == pool \o <<"/","a","@","s","1">>
n_snap_bad == pool1 \o <<"/","f","s","@","s","!">>
n_bmark1   == pool1 \o <<"/","f","s","#","b">>
n_bmark2   == pool2 \o <<"/","f","s","#","b">>
n_bmark_o  == pool1 \o <<"/","o","t","h","e","r","#","b">>
\* well-formed names of MAXNAMELEN, MAXNAMELEN + 1 and MAXNAMELEN + Excess characters
n_fs_255    == pool \o <<"/">> \o Pad(MAXNAMELEN - 5)
n_fs_256    == pool \o <<"/">> \o Pad(MAXNAMELEN - 4)
n_fs_long   == pool1 \o <<"/">> \o Pad(MAXNAMELEN + Excess - 6)
n_snap_long == pool1 \o <<"/">> \o Pad(MAXNAMELEN + Excess - 8) \o <<"@","s">>
\* a malformed name longer than MAXNAMELEN
n_bad_long  == pool \o <<"/","/">> \o Pad(MAXNAMELEN + Excess - 6)

Names ==
    {n_fs, n_fs_bad, n_empty, n_fs1, n_snap1, n_snap1b, n_snap2, n_bmark1,
     n_fs_255, n_fs_256, n_fs_long, n_snap_long, n_bad_long}

Status ==
    {"0", "EINVAL", "EEXIST", "ENOENT", "EXDEV", "EBUSY", "E2BIG", "ENOTSUP",
     "EBADF", "ENAMETOOLONG", "ENODEV", "ETXTBSY", "ENOSPC", "EDQUOT",
     "EROFS", "EAGAIN", "EPERM", "EIO"}

EmptyErrList == [items |-> <<>>, hasMore |-> FALSE, more |-> 0]

NoCall == [op |-> "none", ret |-> "0", a |-> None, b |-> None,
           el |-> EmptyErrList, req |-> <<>>]

Single(op, ret, a, b) ==
    [op |-> op, ret |-> ret, a |-> a, b |-> b, el |-> EmptyErrList, req |-> <<>>]

InitXlate ==
    /\ call = NoCall
    /\ outcome = Return
    /\ errlist = EmptyErrList

\* The codec's caller holds nothing yet: no container, no call made.
NoCodecCall == CodecCall("none", DictVal(<<>>), NoFault, 0, "")

NoDirect == Direct("none", "", <<>>, NoFault, 0, 0, "")

InitCodec ==
    /\ containers = <<>>
    /\ pc = "idle"
    /\ ncall = NoCodecCall
    /\ yielded = 0
    /\ dest = BuiltDict({})
    /\ propagated = ""
    /\ addlog = <<>>
    /\ direct = NoDirect

Init == InitXlate /\ InitCodec

\* No classifier call is in progress.
Idle == call.op = "none"

\* The caller has caught the failure (or taken the normal return) and goes on.
Handled ==
    /\ ~Idle
    /\ call' = NoCall
    /\ outcome' = Return
    /\ errlist' = EmptyErrList
    /\ UNCHANGED cvars

(***************************************************************************)
(* One action per single-call classifier.  Arguments the classifiers never *)
(* read (props, is_zvol, fd, flags, force) are left out.                   *)
(***************************************************************************)
Create ==
    /\ Idle
    /\ \E ret \in Status, name \in Names :
            /\ call' = Single("create", ret, name, None)
            /\ outcome' = lzc_create_xlate_error(ret, name)
            /\ errlist' = EmptyErrList
            /\ UNCHANGED cvars

Clone ==
    /\ Idle
    /\ \E ret \in Status, name \in Names, origin \in Names :
            /\ call' = Single("clone", ret, name, origin)
            /\ outcome' = lzc_clone_xlate_error(ret, name, origin)
            /\ errlist' = EmptyErrList
            /\ UNCHANGED cvars

Rollback ==
    /\ Idle
    /\ \E ret \in Status, name \in Names :
            /\ call' = Single("rollback", ret, name, None)
            /\ outcome' = lzc_rollback_xlate_error(ret, name)
            /\ errlist' = EmptyErrList
            /\ UNCHANGED cvars

GetBookmarks ==
    /\ Idle
    /\ \E ret \in Status, fsname \in Names :
            /\ call' = Single("get_bookmarks", ret, fsname, None)
            /\ outcome' = lzc_get_bookmarks_xlate_error(ret, fsname)
            /\ errlist' = EmptyErrList
            /\ UNCHANGED cvars

SnaprangeSpace ==
    /\ Idle
    /\ \E ret \in Status, firstsnap \in Names, lastsnap \in Names :
            /\ call' = Single("snaprange_space", ret, firstsnap, lastsnap)
            /\ outcome' = lzc_snaprange_space_xlate_error(ret, firstsnap, lastsnap)
            /\ errlist' = EmptyErrList
            /\ UNCHANGED cvars

GetHolds ==
    /\ Idle
    /\ \E ret \in Status, snapname \in Names :
            /\ call' = Single("get_holds", ret, snapname, None)
            /\ outcome' = lzc_get_holds_xlate_error(ret, snapname)
            /\ errlist' = EmptyErrList
            /\ UNCHANGED cvars

Send ==
    /\ Idle
    /\ \E ret \in Status, snapname \in Names, fromsnap \in Names \cup {None} :
            /\ call' = Single("send", ret, snapname, fromsnap)
            /\ outcome' = lzc_send_xlate_error(ret, snapname, fromsnap)
            /\ errlist' = EmptyErrList
            /\ UNCHANGED cvars

SendSpace ==
    /\ Idle
    /\ \E ret \in Status, snapname \in Names, fromsnap \in Names \cup {None} :
            /\ call' = Single("send_space", ret, snapname, fromsnap)
            /\ outcome' = lzc_send_space_xlate_error(ret, snapname, fromsnap)
            /\ errlist' = EmptyErrList
            /\ UNCHANGED cvars

Receive ==
    /\ Idle
    /\ \E ret \in Status, snapname \in Names, origin \in Names \cup {None} :
            /\ call' = Single("receive", ret, snapname, origin)
            /\ outcome' = lzc_receive_xlate_error(ret, snapname, origin)
            /\ errlist' = EmptyErrList
            /\ UNCHANGED cvars

NextXlate ==
    \/ Create
    \/ Clone
    \/ Rollback
    \/ GetBookmarks
    \/ SnaprangeSpace
    \/ GetHolds
    \/ Send
    \/ SendSpace
    \/ Receive
    \/ Handled

SpecXlate == Init /\ [][NextXlate]_vars

(***************************************************************************)
(* Batch calls: sample requests, and every item error map over them        *)
(***************************************************************************)
\* The most items an item error map enumerates.
MaxErrs == 2

ItemStatus ==
    {"EINVAL", "EEXIST", "ENOENT", "EXDEV", "E2BIG", "ENOTSUP", "EBUSY", "EPERM"}

SuppressedCounts == {0, 4}

tag_short == <<"t","a","g">>
tag_long  == Pad(MAXNAMELEN + 1)

n_bmark_bad == pool1 \o <<"/","f","s","#","b","#","c">>

SnapRequests ==
    { <<>>, <<n_snap_a>>, <<n_snap_long>>, <<n_snap_bad>>,
      <<n_snap1, n_snap1b>>, <<n_snap1, n_snap2>>, <<n_snap1, n_snap_bad>>,
      <<n_snap1, n_snap_long>>, <<n_snap_a, n_snap1, n_snap1b>> }

BookmarkNameRequests ==
    { <<>>, <<n_bmark1>>, <<n_bmark_bad>>, <<n_bmark1, n_bmark2>>,
      <<n_bmark1, n_bmark_o, n_bmark2>> }

BookmarkRequests ==
    { <<>>,
      << <<n_bmark1, n_snap1>> >>,
      << <<n_bmark1, n_snap_bad>> >>,
      << <<n_bmark_bad, n_snap1>> >>,
      << <<n_bmark_o, n_snap1>> >>,
      << <<n_bmark1, n_snap1>>, <<n_bmark2, n_snap2>> >>,
      << <<n_bmark1, n_snap1>>, <<n_bmark_o, n_snap1b>> >>,
      << <<n_bmark1, n_snap1>>, <<n_bmark_bad, n_snap1>>, <<n_bmark2, n_snap2>> >> }

HoldRequests ==
    { <<>>,
      << <<n_snap_a, tag_short>> >>,
      << <<n_snap_long, tag_short>> >>,
      << <<n_snap_bad, tag_short>> >>,
      << <<n_snap1, tag_long>> >>,
      << <<n_snap1, tag_short>>, <<n_snap2, tag_short>> >>,
      << <<n_snap1, tag_short>>, <<n_snap1b, tag_long>> >>,
      << <<n_snap1, tag_short>>, <<n_snap_bad, tag_short>>, <<n_snap1b, tag_short>> >> }

TagList(tags) == [list |-> TRUE, tags |-> tags]

\* a hold tag passed bare instead of in a list
NotAList(tag) == [list |-> FALSE, tags |-> << tag >>]

ReleaseRequests ==
    { <<>>,
      << <<n_snap_a, TagList(<<tag_short>>)>> >>,
      << <<n_snap_a, NotAList(tag_short)>> >>,
      << <<n_snap1, TagList(<<tag_short, tag_long>>)>> >>,
      << <<n_snap_long, TagList(<<tag_short>>)>> >>,
      << <<n_snap_bad, TagList(<<tag_short>>)>> >>,
      << <<n_snap1, TagList(<<tag_short>>)>>, <<n_snap2, TagList(<<tag_short>>)>> >>,
      << <<n_snap1, TagList(<<tag_short>>)>>, <<n_snap1b, TagList(<<tag_long>>)>> >>,
      << <<n_snap1, TagList(<<>>)>>, <<n_snap_bad, TagList(<<tag_short>>)>>,
         <<n_snap1b, TagList(<<tag_short>>)>> >> }

Min(a, b) == IF a <= b THEN a ELSE b

\* The item lists an error map over the requested names can enumerate: up to
\* MaxErrs of the names, no name twice, in any order, each with a status.
ItemSeqs(names) ==
    LET n    == Len(names)
        pick == UNION {{f \in [1..k -> 1..n] :
                            \A i, j \in 1..k : i # j => f[i] # f[j]} :
                       k \in 0..Min(MaxErrs, n)}
    IN  UNION {{[i \in 1..Len(f) |-> <<names[f[i]], st[i]>>] :
                    st \in [1..Len(f) -> ItemStatus]} : f \in pick}

ErrLists(names) ==
    {[items |-> it, hasMore |-> FALSE, more |-> 0] : it \in ItemSeqs(names)}
    \cup {[items |-> it, hasMore |-> TRUE, more |-> m] :
            it \in ItemSeqs(names), m \in SuppressedCounts}

\* The aggregate statuses tried with an error map: every one when the map is
\* empty (the mapper classifies it); with items, zero and one that is not.
RetsFor(el) ==
    IF ErrListLen(el) = 0 THEN ItemStatus \cup {"0", "EBADF"}
    ELSE {"0", "EINVAL"}

Batch(op, ret, el, req) ==
    [op |-> op, ret |-> ret, a |-> None, b |-> None, el |-> el, req |-> req]

\* The call c has been made and its classifier has answered r.
Classified(c, r) ==
    /\ call' = c
    /\ outcome' = [out |-> r.out, exc |-> r.exc]
    /\ errlist' = r.errlist
    /\ UNCHANGED cvars

Snapshot ==
    /\ Idle
    /\ \E snaps \in SnapRequests :
        \E el \in ErrLists(snaps) :
          \E ret \in RetsFor(el) :
            Classified(Batch("snapshot", ret, el, snaps),
                       lzc_snapshot_xlate_errors(ret, el, snaps))

DestroySnaps ==
    /\ Idle
    /\ \E snaps \in SnapRequests :
        \E el \in ErrLists(snaps) :
          \E ret \in RetsFor(el) :
            Classified(Batch("destroy_snaps", ret, el, snaps),
                       lzc_destroy_snaps_xlate_errors(ret, el, snaps))

Bookmark ==
    /\ Idle
    /\ \E bookmarks \in BookmarkRequests :
        \E el \in ErrLists(Keys(bookmarks)) :
          \E ret \in RetsFor(el) :
            Classified(Batch("bookmark", ret, el, bookmarks),
                       lzc_bookmark_xlate_errors(ret, el, bookmarks))

DestroyBookmarks ==
    /\ Idle
    /\ \E bookmarks \in BookmarkNameRequests :
        \E el \in ErrLists(bookmarks) :
          \E ret \in RetsFor(el) :
            Classified(Batch("destroy_bookmarks", ret, el, bookmarks),
                       lzc_destroy_bookmarks_xlate_errors(ret, el, bookmarks))

Hold ==
    /\ Idle
    /\ \E holds \in HoldRequests :
        \E el \in ErrLists(Keys(holds)) :
          \E ret \in RetsFor(el) :
            Classified(Batch("hold", ret, el, holds),
                       lzc_hold_xlate_errors(ret, el, holds))

Release ==
    /\ Idle
    /\ \E holds \in ReleaseRequests :
        \E el \in ErrLists(Keys(holds)) :
          \E ret \in RetsFor(el) :
            Classified(Batch("release", ret, el, holds),
                       lzc_release_xlate_errors(ret, el, holds))

NextBatch ==
    \/ Snapshot
    \/ DestroySnaps
    \/ Bookmark
    \/ DestroyBookmarks
    \/ Hold
    \/ Release
    \/ Handled

SpecBatch == Init /\ [][NextBatch]_vars

(***************************************************************************)
(* Name validation: the classifiers called with the invalid-argument       *)
(* status on every short string over a small alphabet, and on the sample   *)
(* names                                                                   *)
(***************************************************************************)
\* The longest string enumerated.
MaxName == 5

\* A letter, the space, the three separators and a character no name may hold.
Alphabet == {"a", " ", "/", "@", "#", "!"}

ShortNames == UNION {[1..k -> Alphabet] : k \in 0..MaxName}

n_snap_255 == pool \o <<"/">> \o Pad(MAXNAMELEN - 7) \o <<"@","s">>
n_snap_256 == pool \o <<"/">> \o Pad(MAXNAMELEN - 6) \o <<"@","s">>
n_bmark_256 == pool \o <<"/">> \o Pad(MAXNAMELEN - 6) \o <<"#","b">>
n_allowed  == <<"A","z","0","9","-","_",".",":"," ">>

NameInputs ==
    ShortNames \cup Names
        \cup {n_snap_255, n_snap_256, n_bmark_256, n_bmark_bad, n_snap_bad, n_allowed,
              n_allowed \o <<"/">> \o n_allowed \o <<"@">> \o n_allowed,
              n_allowed \o <<"#">> \o n_allowed}

\* lzc_create_xlate_error(EINVAL, name, ...)
CreateNamed ==
    /\ Idle
    /\ \E name \in NameInputs :
            /\ call' = Single("create", "EINVAL", name, None)
            /\ outcome' = lzc_create_xlate_error("EINVAL", name)
            /\ errlist' = EmptyErrList
            /\ UNCHANGED cvars

\* lzc_get_holds_xlate_error(EINVAL, snapname)
GetHoldsNamed ==
    /\ Idle
    /\ \E snapname \in NameInputs :
            /\ call' = Single("get_holds", "EINVAL", snapname, None)
            /\ outcome' = lzc_get_holds_xlate_error("EINVAL", snapname)
            /\ errlist' = EmptyErrList
            /\ UNCHANGED cvars

\* lzc_bookmark_xlate_errors(EINVAL, {}, {name: a well-formed snapshot})
BookmarkNamed ==
    /\ Idle
    /\ \E name \in NameInputs :
            Classified(Batch("bookmark", "EINVAL", EmptyErrList,
                             << <<name, n_snap1>> >>),
                       lzc_bookmark_xlate_errors("EINVAL", EmptyErrList,
                                                 << <<name, n_snap1>> >>))

NextNames ==
    \/ CreateNamed
    \/ GetHoldsNamed
    \/ BookmarkNamed
    \/ Handled

SpecNames == Init /\ [][NextNames]_vars

(***************************************************************************)
(* One action per step of a caller of nvlist_in / nvlist_out               *)
(***************************************************************************)
\* nvlist_in(p) has run up to its yield, or has raised: m is its run.
InEntered(p, fault, m) ==
    /\ containers' = m.heap
    /\ addlog' = m.log
    /\ ncall' = CodecCall("nvlist_in", p, fault, Len(m.heap),
                          IF m.exc = "" THEN "" ELSE "enter")
    /\ pc' = IF m.exc = "" THEN "in_body" ELSE "done"
    /\ yielded' = IF m.exc = "" THEN m.h ELSE 0
    /\ propagated' = m.exc
    /\ UNCHANGED <<dest, direct>>
    /\ UNCHANGED xvars

\* with nvlist_in(p) as nvlist: ...
NvlistIn ==
    /\ pc = "idle"
    /\ \E p \in PropMaps, fault \in Faults :
            InEntered(p, fault, nvlist_in_enter(p, Run(containers, <<>>), fault))

\* The with-body of nvlist_in ends normally: finally nvlist_free(nvlist).
NvlistInBodyReturns ==
    /\ pc = "in_body"
    /\ direct.exc = ""
    /\ containers' = nvlist_free(Run(containers, addlog), yielded).heap
    /\ ncall' = [ncall EXCEPT !.exit = "normal"]
    /\ pc' = "done"
    /\ propagated' = ""
    /\ UNCHANGED <<yielded, dest, addlog, direct>>
    /\ UNCHANGED xvars

\* The with-body of nvlist_in raises, what the codec function it called
\* raised or an exception of its own: finally nvlist_free(nvlist).
NvlistInBodyRaises ==
    /\ pc = "in_body"
    /\ containers' = nvlist_free(Run(containers, addlog), yielded).heap
    /\ ncall' = [ncall EXCEPT !.exit = "raise"]
    /\ pc' = "done"
    /\ propagated' = IF direct.exc # "" THEN direct.exc ELSE "Exception"
    /\ UNCHANGED <<yielded, dest, addlog, direct>>
    /\ UNCHANGED xvars

\* _nvlist_add_array(nvlist, key, array) has returned or raised: m is its run.
ArrayAdded(key, array, fault, m) ==
    /\ containers' = m.heap
    /\ addlog' = m.log
    /\ direct' = Direct("_nvlist_add_array", key, array, fault,
                        Cardinality(Outstanding(containers)), m.nadd, m.exc)
    /\ UNCHANGED <<pc, ncall, yielded, dest, propagated>>
    /\ UNCHANGED xvars

\* The with-body of nvlist_in calls _nvlist_add_array on the container.
AddArray ==
    /\ pc = "in_body"
    /\ direct.fn = "none"
    /\ ncall.props \in ArrayBases
    /\ \E array \in Arrays, fault \in ArrayFaults :
            ArrayAdded("k", array, fault,
                       _nvlist_add_array(yielded, "k", array,
                                         Run(containers, addlog), fault))

\* _nvlist_to_dict(nvlist, dest) has returned or raised: st is its run.
Decoded(fault, st) ==
    /\ dest' = BuiltDict(st.d)
    /\ direct' = Direct("_nvlist_to_dict", "", <<>>, fault,
                        Cardinality(Outstanding(containers)), 0, st.exc)
    /\ UNCHANGED <<containers, pc, ncall, yielded, propagated, addlog>>
    /\ UNCHANGED xvars

\* The with-body of nvlist_in decodes the container into a new dict.
DecodeYielded ==
    /\ pc = "in_body"
    /\ direct.fn = "none"
    /\ \E fault \in ValFaults :
            Decoded(fault, _nvlist_to_dict(containers[yielded].pairs, {}, fault))

\* with nvlist_out(d) as nvlistp: the slot is NULL at the yield.
NvlistOut ==
    /\ pc = "idle"
    /\ \E d \in DestMaps :
            /\ dest' = d
            /\ ncall' = CodecCall("nvlist_out", d, NoFault, 0, "")
    /\ pc' = "out_body"
    /\ yielded' = 0
    /\ propagated' = ""
    /\ UNCHANGED <<containers, addlog, direct>>
    /\ UNCHANGED xvars

\* The library call in the with-body of nvlist_out stores a container of
\* its own making in the slot.
LibraryFillsSlot ==
    /\ pc = "out_body"
    /\ yielded = 0
    /\ \E pairs \in WireSamples :
            containers' = Append(containers, [pairs |-> pairs, frees |-> 0])
    /\ yielded' = Len(containers) + 1
    /\ UNCHANGED <<pc, ncall, dest, propagated, addlog, direct>>
    /\ UNCHANGED xvars

\* The with-body of nvlist_out decodes the slot's container itself, into
\* the dict it handed to nvlist_out.
DecodeSlot ==
    /\ pc = "out_body"
    /\ yielded # 0
    /\ direct.fn = "none"
    /\ \E fault \in ValFaults :
            Decoded(fault, _nvlist_to_dict(containers[yielded].pairs, dest.map, fault))

\* The with-body of nvlist_out ends normally: props.clear() runs, then the
\* name nvlist, bound nowhere in nvlist_out, raises NameError on line 248,
\* and again in the finally clause on line 250; nvlist_free is not reached.
NvlistOutBodyReturns ==
    /\ pc = "out_body"
    /\ direct.exc = ""
    /\ dest' = BuiltDict({})
    /\ ncall' = [ncall EXCEPT !.exit = "normal"]
    /\ pc' = "done"
    /\ propagated' = "NameError"
    /\ UNCHANGED <<containers, yielded, addlog, direct>>
    /\ UNCHANGED xvars

\* The with-body of nvlist_out raises: the finally clause raises NameError
\* on line 250 in place of it; nvlist_free is not reached.
NvlistOutBodyRaises ==
    /\ pc = "out_body"
    /\ ncall' = [ncall EXCEPT !.exit = "raise"]
    /\ pc' = "done"
    /\ propagated' = "NameError"
    /\ UNCHANGED <<containers, yielded, dest, addlog, direct>>
    /\ UNCHANGED xvars

\* The caller goes on to its next use of the codec, in a fresh process.
Restart ==
    /\ pc = "done"
    /\ containers' = <<>>
    /\ pc' = "idle"
    /\ ncall' = NoCodecCall
    /\ yielded' = 0
    /\ dest' = BuiltDict({})
    /\ propagated' = ""
    /\ addlog' = <<>>
    /\ direct' = NoDirect
    /\ UNCHANGED xvars

NextCodec ==
    \/ NvlistIn
    \/ NvlistInBodyReturns
    \/ NvlistInBodyRaises
    \/ AddArray
    \/ DecodeYielded
    \/ NvlistOut
    \/ LibraryFillsSlot
    \/ DecodeSlot
    \/ NvlistOutBodyReturns
    \/ NvlistOutBodyRaises
    \/ Restart

SpecCodec == Init /\ [][NextCodec]_vars


(***************************************************************************)
(* Properties of the single-call classifiers                               *)
(***************************************************************************)
SingleOps ==
    {"create", "clone", "rollback", "snaprange_space", "get_holds", "send",
     "send_space", "receive"}

\* The names a call supplies (an optional second name may be None).
Supplied(c) == IF c.b = None THEN {c.a} ELSE {c.a, c.b}

\* The grammar each argument is to follow, by procedure and position.
FirstWellFormed(c) ==
    CASE c.op \in {"create", "clone", "rollback"} -> _is_valid_fs_name(c.a)
      [] c.op = "send" -> _is_valid_snap_name(c.a) \/ _is_valid_fs_name(c.a)
      [] OTHER -> _is_valid_snap_name(c.a)

SecondWellFormed(c) ==
    CASE c.b = None -> TRUE
      [] c.op = "send" -> _is_valid_snap_name(c.b) \/ _is_valid_bmark_name(c.b)
      [] OTHER -> _is_valid_snap_name(c.b)

GrammarViolated(c) == ~FirstWellFormed(c) \/ ~SecondWellFormed(c)

SomeTooLong(c) == \E n \in Supplied(c) : Len(n) > MAXNAMELEN

PairPoolsDiffer(c) == c.b # None /\ _pool_name(c.a) # _pool_name(c.b)

Kind == outcome.exc.kind

\* C6 (as claimed): under invalid-argument every single-call classifier reports
\* a grammar violation of any supplied name before any name-too-long, a
\* name-too-long before pools-differ, and pools-differ before its fallback.
C6_Precedence ==
    (call.op \in SingleOps /\ call.ret = "EINVAL") =>
        /\ outcome.out = "raise"
        /\ GrammarViolated(call) => Kind = "NameInvalid"
        /\ (~GrammarViolated(call) /\ SomeTooLong(call)) => Kind = "NameTooLong"
        /\ (Kind = "PoolsDiffer") =>
                (~GrammarViolated(call) /\ ~SomeTooLong(call) /\ PairPoolsDiffer(call))

\* C8 (as claimed): in the classifiers that take a pair of names, cross-device
\* with two snapshot names of different pools gives pools-differ, and
\* snapshot-mismatch is given only for names of one pool.
C8_CrossPool ==
    (/\ call.op \in {"send", "send_space", "snaprange_space"}
     /\ call.ret = "EXDEV"
     /\ call.b # None
     /\ _is_valid_snap_name(call.a)
     /\ _is_valid_snap_name(call.b)) =>
        /\ PairPoolsDiffer(call) => Kind = "PoolsDiffer"
        /\ Kind = "SnapshotMismatch" => ~PairPoolsDiffer(call)

\* The statuses each single-call classifier names besides invalid-argument.
CodeTable(op) ==
    CASE op = "create" -> {"EEXIST", "ENOENT"}
      [] op = "clone" -> {"EEXIST", "ENOENT"}
      [] op = "rollback" -> {"ENOENT"}
      [] op = "get_bookmarks" -> {"ENOENT"}
      [] op = "snaprange_space" -> {"ENOENT"}
      [] op = "get_holds" -> {"ENOENT", "ENOTSUP"}
      [] op = "send" -> {"EXDEV", "ENOENT", "ENAMETOOLONG"}
      [] op = "send_space" -> {"EXDEV", "ENOENT"}
      [] op = "receive" -> {"ENOENT", "EEXIST", "ENOTSUP", "ENODEV", "ETXTBSY",
                            "EBUSY", "ENOSPC", "EDQUOT", "ENAMETOOLONG", "EROFS",
                            "EAGAIN"}
      [] OTHER -> {}

Description(op) ==
    CASE op = "create" -> "Failed to create filesystem"
      [] op = "clone" -> "Failed to create clone"
      [] op = "rollback" -> "Failed to rollback"
      [] op = "get_bookmarks" -> "Failed to list bookmarks"
      [] op = "snaprange_space" ->
            "Failed to calculate space used by range of snapshots"
      [] op = "get_holds" -> "Failed to get holds on snapshot"
      [] op = "send_space" -> "Failed to estimate backup stream size"
      [] OTHER -> "an operation description"

\* C10 (as claimed): a non-zero status that is neither invalid-argument nor
\* in the procedure's table raises the generic wrapped-status failure with
\* the raw status and the procedure's description.
C10_GenericFallback ==
    (/\ call.op \in SingleOps \cup {"get_bookmarks"}
     /\ call.ret \notin {"0", "EINVAL"} \cup CodeTable(call.op)) =>
        /\ outcome.out = "raise"
        /\ Kind = "ZFSGenericError"
        /\ outcome.exc.code = call.ret
        /\ outcome.exc.desc # ""
        /\ (call.op \notin {"send", "receive"}) =>
                outcome.exc.desc = Description(call.op)

(***************************************************************************)
(* Properties of name validation                                           *)
(***************************************************************************)
\* The naming grammar, read character by character.
IsNameChar(c) == c \in ascii_letters \cup digits \cup {"-", "_", ".", ":", " "}

IsComponent(s) == Len(s) > 0 /\ \A i \in 1..Len(s) : IsNameChar(s[i])

\* One or more components joined by '/': no '/' at either end, no two in a row.
IsFilesystem(s) ==
    /\ Len(s) > 0
    /\ s[1] # "/" /\ s[Len(s)] # "/"
    /\ \A i \in 1..Len(s) : IsNameChar(s[i]) \/ s[i] = "/"
    /\ \A i \in 1..(Len(s) - 1) : ~(s[i] = "/" /\ s[i + 1] = "/")

\* filesystem, the separator, component
IsSuffixed(s, sep) ==
    \E k \in 1..Len(s) :
        /\ s[k] = sep
        /\ IsFilesystem(SubSeq(s, 1, k - 1))
        /\ IsComponent(SubSeq(s, k + 1, Len(s)))

\* The call has raised a batch failure that lists one entry.
IsBatchItem ==
    /\ outcome.out = "raise"
    /\ outcome.exc.kind = "BookmarkFailure"
    /\ Len(outcome.exc.errors) = 1

\* That entry is name-invalid for the requested name.
ItemNameInvalid ==
    /\ IsBatchItem
    /\ outcome.exc.errors[1].kind = "NameInvalid"
    /\ outcome.exc.errors[1].arg = call.req[1][1]

\* C13: under the invalid-argument status a name is reported name-invalid
\* exactly when it does not follow its grammar: one or more '/'-separated
\* non-empty components of letters, digits and '-_.: ' for a filesystem,
\* filesystem@component for a snapshot, filesystem#component for a
\* bookmark.  A well-formed name is reported name-too-long exactly when it
\* has more than 255 characters.  "pool/fs" is no name error, "pool//fs" and
\* "" are name-invalid, a well-formed name of 256 characters is
\* name-too-long.
C13_NameGrammar ==
    /\ (call.op = "create" /\ call.ret = "EINVAL") =>
            /\ outcome.out = "raise"
            /\ (Kind = "NameInvalid") <=> ~IsFilesystem(call.a)
            /\ (Kind = "NameTooLong") <=>
                    (IsFilesystem(call.a) /\ Len(call.a) > MAXNAMELEN)
            /\ Kind \in {"NameInvalid", "NameTooLong"} => outcome.exc.arg = call.a
            /\ call.a = n_fs => Kind \notin {"NameInvalid", "NameTooLong"}
            /\ call.a \in {n_fs_bad, n_empty} => Kind = "NameInvalid"
            /\ call.a = n_fs_256 => Kind = "NameTooLong"
            /\ call.a = n_fs_255 => Kind \notin {"NameInvalid", "NameTooLong"}
    /\ (call.op = "get_holds" /\ call.ret = "EINVAL") =>
            /\ outcome.out = "raise"
            /\ (Kind = "NameInvalid") <=> ~IsSuffixed(call.a, "@")
            /\ (Kind = "NameTooLong") <=>
                    (IsSuffixed(call.a, "@") /\ Len(call.a) > MAXNAMELEN)
    /\ (call.op = "bookmark" /\ call.ret = "EINVAL" /\ Len(call.req) = 1
                             /\ ErrListLen(call.el) = 0) =>
            /\ IsBatchItem
            /\ ItemNameInvalid <=> ~IsSuffixed(call.req[1][1], "#")

\* The 256-character well-formed filesystem name has been classified
\* name-too-long by the create classifier.
C13_Witness ==
    /\ call.op = "create" /\ call.ret = "EINVAL" /\ call.a = n_fs_256
    /\ Len(call.a) = MAXNAMELEN + 1
    /\ outcome = Raise(Exc("NameTooLong", n_fs_256))

(***************************************************************************)
(* Properties of the batch classifiers                                     *)
(***************************************************************************)
BatchOps ==
    {"snapshot", "destroy_snaps", "bookmark", "destroy_bookmarks", "hold", "release"}

BatchKind(op) ==
    CASE op = "snapshot" -> "SnapshotFailure"
      [] op = "destroy_snaps" -> "SnapshotDestructionFailure"
      [] op = "bookmark" -> "BookmarkFailure"
      [] op = "destroy_bookmarks" -> "BookmarkDestructionFailure"
      [] op = "hold" -> "HoldFailure"
      [] op = "release" -> "HoldReleaseFailure"
      [] OTHER -> "none"

IsBatchFailure == outcome.out = "raise" /\ Kind = BatchKind(call.op)

\* The already-exists kind of the procedures that have one.
ExistsKind(op) ==
    CASE op = "snapshot" -> "SnapshotExists"
      [] op = "bookmark" -> "BookmarkExists"
      [] op = "hold" -> "HoldExists"
      [] OTHER -> "none"

\* What the same procedure reports for one item when the error map
\* enumerates that item alone, under another aggregate status.
Alone(c, item) ==
    LET el1 == [items |-> << item >>, hasMore |-> FALSE, more |-> 0]
        r == CASE c.op = "snapshot" -> lzc_snapshot_xlate_errors("EPERM", el1, c.req)
               [] c.op = "destroy_snaps" ->
                      lzc_destroy_snaps_xlate_errors("EPERM", el1, c.req)
               [] c.op = "bookmark" -> lzc_bookmark_xlate_errors("EPERM", el1, c.req)
               [] c.op = "destroy_bookmarks" ->
                      lzc_destroy_bookmarks_xlate_errors("EPERM", el1, c.req)
               [] c.op = "hold" -> lzc_hold_xlate_errors("EPERM", el1, c.req)
               [] c.op = "release" -> lzc_release_xlate_errors("EPERM", el1, c.req)
    IN  r.exc.errors[1]

\* C7: with a non-empty item error map, the batch failure a batch classifier
\* raises lists one entry per enumerated item, in order, each the
\* classification of that item's own status and name (an already-exists item
\* is reported as already-exists under its own name), and carries the
\* supplied suppressed count, zero when the map has none.  The snapshot,
\* destroy and bookmark classifiers always raise it.
C7_BatchItems ==
    (call.op \in BatchOps /\ call.ret # "0" /\ ErrListLen(call.el) > 0) =>
        /\ call.op \in {"snapshot", "destroy_snaps", "bookmark", "destroy_bookmarks"}
                => IsBatchFailure
        /\ IsBatchFailure =>
            LET items == call.el.items
                errors == outcome.exc.errors
            IN  /\ Len(errors) = Len(items)
                /\ \A i \in 1..Len(items) :
                    /\ errors[i] = Alone(call, items[i])
                    /\ (items[i][2] = "EEXIST" /\ ExistsKind(call.op) # "none") =>
                            /\ errors[i].kind = ExistsKind(call.op)
                            /\ errors[i].arg = items[i][1]
                /\ outcome.exc.suppressed =
                        (IF call.el.hasMore THEN call.el.more ELSE 0)

\* The map {"pool/a@s1": EEXIST} with suppressed count 4 has been classified
\* into a one-entry snapshot failure, already-exists, count 4.
C7_Witness ==
    /\ call.op = "snapshot"
    /\ call.el = [items |-> << <<n_snap_a, "EEXIST">> >>, hasMore |-> TRUE, more |-> 4]
    /\ outcome = Raise(BatchExc("SnapshotFailure",
                                << Exc("SnapshotExists", n_snap_a) >>, 4))

\* C9 (as claimed): every non-zero status makes the call raise one failure
\* value, and every entry of a batch failure's list is itself a failure
\* value: never None, never a wrapper around one.
C9_AlwaysClassified ==
    (call.op # "none" /\ call.ret # "0") =>
        /\ outcome.out = "raise"
        /\ outcome.exc.py = "exc"
        /\ \A i \in 1..Len(outcome.exc.errors) : outcome.exc.errors[i].py = "exc"

\* The causes of an invalid-argument item, in the order claimed.
\* 1: the item's name, or for a bookmark its source snapshot's, is malformed.
SyntaxCause(op, req, name) ==
    IF op = "bookmark"
    THEN ~_is_valid_bmark_name(name) \/ ~_is_valid_snap_name(Get(req, name))
    ELSE ~_is_valid_snap_name(name)

\* 2: a hold tag of the item, or the bookmark's own component after '#', is
\* longer than MAXNAMELEN.
TagCause(op, req, name) ==
    CASE op = "hold" -> Len(Get(req, name)) > MAXNAMELEN
      [] op = "release" ->
            \E i \in 1..Len(Get(req, name).tags) :
                Len(Get(req, name).tags[i]) > MAXNAMELEN
      [] op = "bookmark" -> Len(name) - Len(_fs_name(name)) - 1 > MAXNAMELEN

\* 3: the bookmark and its source snapshot are of different filesystems.
PrefixCause(op, req, name) ==
    op = "bookmark" /\ _fs_name(name) # _fs_name(Get(req, name))

\* 4: some item of the request is of another pool.
PoolCause(op, req, name) ==
    \E i \in 1..Len(req) : _pool_name(req[i][1]) # _pool_name(name)

\* The kind the first applicable cause is reported as; "none" if none applies.
FirstCauseKind(op, req, name) ==
    IF SyntaxCause(op, req, name) THEN "NameInvalid"
    ELSE IF TagCause(op, req, name) THEN "NameTooLong"
    ELSE IF PrefixCause(op, req, name) THEN "BookmarkMismatch"
    ELSE IF PoolCause(op, req, name) THEN "PoolsDiffer"
    ELSE "none"

\* C14 (as claimed): in the hold, release and bookmark classifiers an item
\* with the invalid-argument status and a name of its own is reported as the
\* first cause that applies to it, in the order name syntax, tag length,
\* filesystem-prefix mismatch, pool mismatch.
C14_CausePrecedence ==
    (call.op \in {"hold", "release", "bookmark"} /\ IsBatchFailure
                                                 /\ ErrListLen(call.el) > 0) =>
        \A i \in 1..Len(call.el.items) :
            LET name == call.el.items[i][1]
            IN  (/\ call.el.items[i][2] = "EINVAL"
                 /\ Truthy(name)
                 /\ FirstCauseKind(call.op, call.req, name) # "none") =>
                    outcome.exc.errors[i].kind =
                        FirstCauseKind(call.op, call.req, name)

\* C11 (as claimed): a classification call leaves the item error map it was
\* given as it was: after the call the caller's map holds exactly the entries
\* it held before.  (The request names and maps are only read: the
\* classifiers bind them to no variable they assign, and holds.keys() and
\* bookmarks.keys() are fresh lists.)
C11_InputsUnchanged ==
    call.op # "none" => errlist = call.el

(***************************************************************************)
(* Properties of the codec                                                 *)
(***************************************************************************)
\* C1 (as claimed): when a call of nvlist_in has ended, on whichever path,
\* every container it allocated has been freed exactly once.
C1_ReleasedOnce ==
    (pc = "done" /\ ncall.fn = "nvlist_in") =>
        \A h \in 1..ncall.allocated : containers[h].frees = 1

AllDicts(array) == Len(array) > 0 /\ \A i \in 1..Len(array) : array[i].t = "dict"

\* C2 (as claimed): when _nvlist_add_array has failed on a list of dicts,
\* at whichever element and for whichever reason, as many containers are
\* outstanding as were before the call.
C2_ArrayNoLeak ==
    (pc = "in_body" /\ direct.fn = "_nvlist_add_array" /\ AllDicts(direct.array)
                    /\ direct.exc # "") =>
        Cardinality(Outstanding(containers)) = direct.before

\* C3 (as claimed): when the with-body of nvlist_out has ended normally with
\* a container in the slot, that container has been freed exactly once.
C3_SlotReleased ==
    (pc = "done" /\ ncall.fn = "nvlist_out" /\ ncall.exit = "normal" /\ yielded # 0) =>
        containers[yielded].frees = 1

\* The keys of a dict, as the set of their texts.
KeyNames(d) == {p[1].s : p \in d.map}

\* The entry names of a container.
PairNames(pairs) == {pairs[i].name : i \in 1..Len(pairs)}

\* C12 (as claimed): when the with-body of nvlist_out has ended normally with
\* a container in the slot, the keys of the destination dict are exactly the
\* entry names of that container, whatever the dict held before.
C12_DestHoldsLastDecode ==
    (pc = "done" /\ ncall.fn = "nvlist_out" /\ ncall.exit = "normal" /\ yielded # 0) =>
        KeyNames(dest) = PairNames(containers[yielded].pairs)

\* A value of the documented format: None, bool, str, int, a CData of one
\* of the ten C types, a dict of such values under str keys, or a list of
\* bools, strs, ints, CData of one C type, or dicts.
RECURSIVE Supported(_)
Supported(v) ==
    CASE v.t \in {"NoneType", "bool", "str", "int"} -> TRUE
      [] v.t = "CData" -> v.ct \in CTypes
      [] v.t = "dict" ->
            \A i \in 1..Len(v.sub) : v.sub[i][1].t = "str" /\ Supported(v.sub[i][2])
      [] v.t = "list" ->
            \A i \in 1..Len(v.sub) :
                /\ v.sub[i].t \in {"bool", "str", "int", "CData", "dict"}
                /\ v.sub[i].t = v.sub[1].t
                /\ v.sub[i].ct = v.sub[1].ct
                /\ Supported(v.sub[i])
      [] OTHER -> FALSE

\* The value v with every dict in it as the set of its items: what Python's
\* == compares.
RECURSIVE AsItems(_)
AsItems(v) ==
    CASE v.t = "dict" ->
            BuiltDict({<<v.sub[i][1], AsItems(v.sub[i][2])>> : i \in 1..Len(v.sub)})
      [] v.t = "list" -> ListVal([i \in 1..Len(v.sub) |-> AsItems(v.sub[i])])
      [] OTHER -> v

\* C4 (as claimed): a dict of the documented format is encoded without a
\* failure, and decoding the container gives a dict equal to it, entry by
\* entry.
C4_RoundTrip ==
    (ncall.fn = "nvlist_in" /\ ncall.fault = NoFault /\ Supported(ncall.props)) =>
        /\ ncall.exit # "enter"
        /\ (direct.fn = "_nvlist_to_dict" /\ direct.fault = NoFault) =>
                /\ direct.exc = ""
                /\ dest = AsItems(ncall.props)

\* The elements are not all of one variant (type and, for CData, C type).
Mixed(array) ==
    \E i, j \in 1..Len(array) : array[i].t # array[j].t \/ array[i].ct # array[j].ct

\* Where the dict p holds a list of mixed variants.
MixedAt(p) ==
    {i \in 1..Len(p.sub) : p.sub[i][2].t = "list" /\ Mixed(p.sub[i][2].sub)}

\* The i-th entry of p has a str key, and the entries before it have str
\* keys and str, bool or None values.
PlainBefore(p, i) ==
    /\ p.sub[i][1].t = "str"
    /\ \A j \in 1..(i - 1) :
            /\ p.sub[j][1].t = "str"
            /\ p.sub[j][2].t \in {"str", "bool", "NoneType"}

\* C5 (as claimed): encoding a dict that holds a list of mixed variants under
\* a str key, the entries before it being strs, bools or None under str
\* keys, raises the TypeError of the element check with no nvlist_add_* call
\* made on any container; and so does _nvlist_add_array on such a list.
C5_RejectedBeforeAnyAdd ==
    /\ (/\ ncall.fn = "nvlist_in"
        /\ ncall.fault = NoFault
        /\ MixedAt(ncall.props) # {}
        /\ PlainBefore(ncall.props, First(MixedAt(ncall.props)))) =>
            /\ propagated = ElementsDiffer
            /\ addlog = <<>>
    /\ (direct.fn = "_nvlist_add_array" /\ Mixed(direct.array)) =>
            /\ direct.exc = ElementsDiffer
            /\ direct.adds = 0

=============================================================================
